---- MODULE Spec2Model ----
(***************************************************************************)
(* A model of geovision.py: the Debugger context manager, the Detector     *)
(* (imread -> cvtColor -> Canny -> HoughLinesP -> segment list), the GIS   *)
(* exporter (add_lines / to_json), load_options, save_json and main.       *)
(*                                                                         *)
(* Python's None is modelled as the empty sequence and a present value v   *)
(* as <<v>>, so every optional variable holds a sequence of length <= 1.   *)
(***************************************************************************)
EXTENDS Integers, Sequences, FiniteSets, TLC

None == <<>>
Some(v) == <<v>>
IsNone(o) == o = <<>>
Get(o) == o[1]

(* ---------------------------- bounds ----------------------------------- *)
\* the largest number of -v flags on a command line
MaxVerbosity == 2
\* --rho and --theta values on a command line are drawn from 0..MaxFloat
MaxFloat == 2
\* the largest number of GIS.add_lines calls on one GIS object (direct caller)
MaxAdds == 2
\* the longest segment list handed to GIS.add_lines by a direct caller
MaxLen == 2

(* ----------------------- program constants ----------------------------- *)
\* Detector.__init__ defaults.  rho is in pixels; theta is in units of pi/4,
\* so math.pi / 2 is 2.
DefaultRho == 1
DefaultTheta == 2
DefaultHoughThreshold == 80
DefaultCannyThreshold1 == 200
DefaultCannyThreshold2 == 255
\* math.pi in units of pi/4
Pi == 4

(* ------------------------- the environment ----------------------------- *)
\* Image files.  An image is abstracted to the straight strokes it shows:
\* endpoints in pixels and the gradient magnitude across the stroke.
Stroke(x1, y1, x2, y2, g) == [x1 |-> x1, y1 |-> y1, x2 |-> x2, y2 |-> y2, grad |-> g]

ImagePaths == {"missing.jpg", "blank.jpg", "faint.jpg", "road.jpg", "cross.jpg"}

\* cv2.imread: None when the path cannot be opened or decoded.
imread(path) ==
    CASE path = "missing.jpg" -> None
      [] path = "blank.jpg"   -> Some([strokes |-> <<>>, overlay |-> <<>>])
      [] path = "faint.jpg"   -> Some([strokes |-> <<Stroke(0, 0, 100, 0, 100)>>,
                                       overlay |-> <<>>])
      [] path = "road.jpg"    -> Some([strokes |-> <<Stroke(0, 0, 100, 0, 400)>>,
                                       overlay |-> <<>>])
      [] OTHER                -> Some([strokes |-> <<Stroke(0, 0, 100, 0, 400),
                                                     Stroke(5, 5, 5, 105, 400),
                                                     Stroke(0, 0, 90, 90, 400),
                                                     Stroke(0, 0, 100, 0, 400),
                                                     Stroke(7, 7, 7, 20, 400)>>,
                                       overlay |-> <<>>])

\* Output directories: "a" and "b" exist and are writable, "nodir" does not exist.
Dirs == {"a", "b", "nodir"}
WritableDirs == {"a", "b"}

\* The array layout of cv2.HoughLinesP's result depends on the installed
\* OpenCV: (1, N, 4) or (N, 1, 4).
Layouts == {"1xNx4", "Nx1x4"}

Abs(n) == IF n < 0 THEN -n ELSE n
Max(a, b) == IF a >= b THEN a ELSE b

(* --------------------------- cv2 calls --------------------------------- *)
\* cv2.Canny(img_gray, threshold1, threshold2): the strokes whose gradient is
\* a strong edge (above threshold2); a weaker stroke is kept by hysteresis only
\* when connected to a strong one, which no modelled image has.
Canny(gray, t1, t2) ==
    [gray EXCEPT !.strokes = SelectSeq(gray.strokes, LAMBDA s : s.grad > t2 /\ s.grad > t1)]

\* the angle of a stroke's normal, in units of pi/4: 0 vertical, 2 horizontal
NormalAngle(s) ==
    IF s.x1 = s.x2 THEN 0
    ELSE IF s.y1 = s.y2 THEN 2
    ELSE IF (s.x2 - s.x1) * (s.y2 - s.y1) > 0 THEN 3 ELSE 1

Votes(s) == Max(Abs(s.x2 - s.x1), Abs(s.y2 - s.y1)) + 1

\* numangle = cvRound(pi / theta)
NumAngle(theta) == (2 * Pi + theta) \div (2 * theta)

\* cv2.HoughLinesP(canny, rho, theta, threshold): the strokes of the edge map
\* that lie on one of the sampled angles n * theta (n < numangle) with at
\* least threshold votes, as rows <<x1, y1, x2, y2>>; None when there are none.
HoughLinesP(canny, rho, theta, threshold) ==
    LET hit(s) == /\ Votes(s) >= threshold
                  /\ \E n \in 0..(NumAngle(theta) - 1) : n * theta = NormalAngle(s)
        found == SelectSeq(canny.strokes, hit)
        rows  == [i \in 1..Len(found) |->
                    <<found[i].x1, found[i].y1, found[i].x2, found[i].y2>>]
    IN  IF Len(found) = 0 THEN None ELSE Some(rows)

\* a cvtColor that takes a None image for an empty one instead of raising
CvtColorOfNone(image) ==
    IF IsNone(image) THEN [raised |-> FALSE, gray |-> Some([strokes |-> <<>>, overlay |-> <<>>])]
    ELSE [raised |-> FALSE, gray |-> image]

\* cv2.cvtColor(img, COLOR_BGR2GRAY): raises cv2.error on a None image
CvtColor(image) ==
    IF IsNone(image) THEN [raised |-> TRUE, gray |-> None]
    ELSE [raised |-> FALSE, gray |-> image]

\* filtered[0] under the installed layout: every row of a (1, N, 4) array, the
\* first row only of an (N, 1, 4) array.
FirstPlane(rows, layout) ==
    IF layout = "1xNx4" THEN rows ELSE <<rows[1]>>

(* --------------------------- Debugger ---------------------------------- *)
\* Debugger.__init__
DebuggerInit == [show_images |-> FALSE, show_log |-> FALSE]

\* a Debugger.image that paints over the array it displays
DebuggerImageInPlace(dbg, img, wins) ==
    IF dbg.show_images
    THEN [img |-> [img EXCEPT !.strokes = <<>>], windows |-> wins \cup {"image"}]
    ELSE [img |-> img, windows |-> wins]

\* Debugger.image(img): namedWindow + imshow + waitKey when show_images is
\* set.  imshow reads the array and leaves it as it is; the operator returns
\* the array as the caller holds it afterwards together with the open windows.
DebuggerImage(dbg, img, wins) ==
    [img |-> img, windows |-> IF dbg.show_images THEN wins \cup {"image"} ELSE wins]

\* Debugger.line(img, line): cv2.line draws the segment onto img in place.
DebuggerLine(dbg, img, line) ==
    IF dbg.show_images THEN [img EXCEPT !.overlay = Append(@, line)] ELSE img

\* Debugger.log(message): print when show_log is set.
DebuggerLog(dbg, out, message) ==
    IF dbg.show_log THEN Append(out, message) ELSE out

\* a Debugger.__exit__ that returns self (a true value) without re-raising
DebuggerExitSwallows(wins, pending) == [windows |-> {}, raised |-> None]

\* Debugger.__exit__: cv2.destroyAllWindows() closes every window; a pending
\* exception is re-raised, so the exception that entered is the one that leaves.
DebuggerExit(wins, pending) == [windows |-> {}, raised |-> pending]

(* ------------------------------ GIS ------------------------------------ *)
\* float(n) of an integer pixel coordinate: the double of the same value
\* (exact for every int32).
Float(n) == [float |-> n]

LineString(coords) == [type |-> "LineString", coordinates |-> coords]
GeometryCollection(geoms) == [type |-> "GeometryCollection", geometries |-> geoms]
FeatureCollection(feats) == [type |-> "FeatureCollection", features |-> feats]

\* a LineString with x and y of each endpoint exchanged
LineStringOfSwapped(line) ==
    LineString(<< <<Float(line[1][2]), Float(line[1][1])>>,
                  <<Float(line[2][2]), Float(line[2][1])>> >>)

\* the geojson.LineString built for one segment ((x1, y1), (x2, y2))
LineStringOf(line) ==
    LineString(<< <<Float(line[1][1]), Float(line[1][2])>>,
                  <<Float(line[2][1]), Float(line[2][2])>> >>)

\* an add_lines that returns early on an empty segment list
AddLinesSkipEmpty(feats, lines) ==
    IF lines = <<>> THEN feats
    ELSE Append(feats, GeometryCollection([i \in 1..Len(lines) |-> LineStringOf(lines[i])]))

\* GIS.add_lines: the accumulator after the call
AddLines(feats, lines) ==
    Append(feats, GeometryCollection([i \in 1..Len(lines) |-> LineStringOf(lines[i])]))

\* the messages GIS.add_lines logs: each segment, in order
RECURSIVE LogLines(_, _, _)
LogLines(dbg, out, lines) ==
    IF lines = <<>> THEN out
    ELSE LogLines(dbg, DebuggerLog(dbg, out, [line |-> Head(lines)]), Tail(lines))

\* JSON text is a sequence of tokens: punctuation, string literals, numbers.
P(c) == [t |-> "punct", c |-> c]
S(s) == [t |-> "string", s |-> s]
N(x) == [t |-> "number", n |-> x.float]

\* the already serialised elements of a JSON array, comma separated
RECURSIVE JoinComma(_)
JoinComma(parts) ==
    IF parts = <<>> THEN <<>>
    ELSE IF Len(parts) = 1 THEN parts[1]
    ELSE parts[1] \o <<P(",")>> \o JoinComma(Tail(parts))

DumpsArray(parts) == <<P("[")>> \o JoinComma(parts) \o <<P("]")>>

DumpsPoint(pt) == <<P("["), N(pt[1]), P(","), N(pt[2]), P("]")>>

\* geojson.dumps(obj, sort_keys=True) of each object type
DumpsLineString(g) ==
    <<P("{"), S("coordinates"), P(":")>>
        \o DumpsArray([i \in 1..Len(g.coordinates) |-> DumpsPoint(g.coordinates[i])])
        \o <<P(","), S("type"), P(":"), S(g.type), P("}")>>

DumpsGeometryCollection(c) ==
    <<P("{"), S("geometries"), P(":")>>
        \o DumpsArray([i \in 1..Len(c.geometries) |-> DumpsLineString(c.geometries[i])])
        \o <<P(","), S("type"), P(":"), S(c.type), P("}")>>

DumpsFeatureCollection(fc) ==
    <<P("{"), S("features"), P(":")>>
        \o DumpsArray([i \in 1..Len(fc.features) |-> DumpsGeometryCollection(fc.features[i])])
        \o <<P(","), S("type"), P(":"), S(fc.type), P("}")>>

\* GIS.to_json: str(geojson.FeatureCollection(self._features))
ToJson(feats) == DumpsFeatureCollection(FeatureCollection(feats))

(* ----------------------------- files ----------------------------------- *)
NoFile == [exists |-> FALSE, text |-> <<>>]

\* open(path, "w") truncates or creates the file, write puts the text into it
WriteFile(old, text) == [exists |-> TRUE, text |-> text]

(* ------------------------ Detector and main ---------------------------- *)
\* Detector.__init__
DetectorInit ==
    [hough_rho        |-> DefaultRho,
     hough_theta      |-> DefaultTheta,
     hough_threshold  |-> DefaultHoughThreshold,
     canny_threshold1 |-> DefaultCannyThreshold1,
     canny_threshold2 |-> DefaultCannyThreshold2]

\* Python truthiness of an optional number: None and 0 are false
Truthy(o) == ~IsNone(o) /\ Get(o) # 0

\* load_options: the parsed namespace, or None when a required option is
\* missing (parse_args then raises SystemExit).  A count of zero -v flags
\* leaves verbosity None.
ParseArgs(av) ==
    IF IsNone(av.image) \/ IsNone(av.outdir) THEN None
    ELSE Some([image     |-> Get(av.image),
               outdir    |-> Get(av.outdir),
               verbosity |-> IF av.v = 0 THEN None ELSE Some(av.v),
               rho       |-> av.rho,
               theta     |-> av.theta])

\* a verbosity block that enables image display from the first -v on
MainSetVerbosityOffByOne(dbg, a) ==
    IF Truthy(a.verbosity)
    THEN [show_log    |-> IF Get(a.verbosity) > 0 THEN TRUE ELSE dbg.show_log,
          show_images |-> IF Get(a.verbosity) > 0 THEN TRUE ELSE dbg.show_images]
    ELSE dbg

\* main, the verbosity block: the Debugger's flags afterwards
MainSetVerbosity(dbg, a) ==
    IF Truthy(a.verbosity)
    THEN [show_log    |-> IF Get(a.verbosity) > 0 THEN TRUE ELSE dbg.show_log,
          show_images |-> IF Get(a.verbosity) > 1 THEN TRUE ELSE dbg.show_images]
    ELSE dbg

\* main, Detector(debug) followed by the --rho / --theta overrides
MainMakeDetector(a) ==
    LET d0 == DetectorInit
        d1 == IF Truthy(a.rho) THEN [d0 EXCEPT !.hough_rho = Get(a.rho)] ELSE d0
    IN  IF Truthy(a.theta) THEN [d1 EXCEPT !.hough_theta = Get(a.theta)] ELSE d1

\* detect_roads, the loop over filtered[0]: the segment list built so far and
\* the image the Debugger has drawn on
RECURSIVE CollectLines(_, _, _, _)
CollectLines(dbg, rows, acc, image) ==
    IF rows = <<>> THEN [lines |-> acc, img |-> image]
    ELSE LET r    == Head(rows)
             line == << <<r[1], r[2]>>, <<r[3], r[4]>> >>
         IN  CollectLines(dbg, Tail(rows), Append(acc, line), DebuggerLine(dbg, image, line))

\* main, "if lines:": None and the empty list are false
LinesTruthy(ls) == ~IsNone(ls) /\ Get(ls) # <<>>

\* save_json: the file system after open(join(outdir, "geo.json"), "w") and
\* write; ok is FALSE when open raises because the directory does not exist.
SaveJson(files, text, outdir) ==
    IF outdir \in WritableDirs
    THEN [ok |-> TRUE, fs |-> [files EXCEPT ![outdir] = WriteFile(@, text)]]
    ELSE [ok |-> FALSE, fs |-> files]

(* ---------------------------- the state -------------------------------- *)
VARIABLES
    cvLayout,   \* the HoughLinesP result layout of the installed OpenCV
    fs,         \* <outdir>/geo.json of every writable directory
    pc,         \* where the running invocation of main is
    argv,       \* the command line of the running invocation
    args,       \* load_options' result
    debug,      \* the Debugger's two flags
    windows,    \* the open cv2 windows
    console,    \* what has been printed
    destroyed,  \* cv2.destroyAllWindows() was called by this invocation
    detect,     \* the Detector's parameters
    img,        \* detect_roads: img
    canny,      \* detect_roads: canny
    houghCall,  \* the arguments HoughLinesP was called with
    filtered,   \* detect_roads: filtered
    lines,      \* main: lines
    features,   \* GIS._features
    json,       \* the text the last GIS.to_json call returned
    inputs,     \* the arguments of the GIS.add_lines calls on the GIS object
    lastCall,   \* the last call on the GIS object
    exc,        \* the exception raised inside the with block
    status,     \* the exception that left main (None: exit status 0)
    wrote,      \* save_json wrote the file in this invocation
    prev        \* the previous invocation's command line and outcome

env  == <<cvLayout, fs>>
proc == <<pc, argv, args, debug, windows, console, destroyed, detect, img, canny,
          houghCall, filtered, lines, exc, status, wrote>>
gis  == <<features, json, inputs, lastCall>>
vars == <<env, proc, gis, prev>>

\* the command lines: each option present or absent
OptFloat == {None} \cup {Some(x) : x \in 0..MaxFloat}
Argvs ==
    [image  : {None} \cup {Some(p) : p \in ImagePaths},
     outdir : {None} \cup {Some(d) : d \in Dirs},
     v      : 0..MaxVerbosity,
     rho    : OptFloat,
     theta  : OptFloat]

NoArgv == [image |-> None, outdir |-> None, v |-> 0, rho |-> None, theta |-> None]

Init ==
    /\ cvLayout \in Layouts
    /\ fs = [d \in WritableDirs |-> NoFile]
    /\ pc = "idle"
    /\ argv = NoArgv
    /\ args = None
    /\ debug = DebuggerInit
    /\ windows = {}
    /\ console = <<>>
    /\ destroyed = FALSE
    /\ detect = None
    /\ img = None
    /\ canny = None
    /\ houghCall = None
    /\ filtered = None
    /\ lines = None
    /\ features = <<>>
    /\ json = None
    /\ inputs = <<>>
    /\ lastCall = "none"
    /\ exc = None
    /\ status = None
    /\ wrote = FALSE
    /\ prev = None

\* the process state outside main, and as "with Debugger() as debug" enters it
Fresh(at, av) ==
    /\ pc' = at
    /\ argv' = av
    /\ args' = None
    /\ debug' = DebuggerInit
    /\ windows' = {}
    /\ console' = <<>>
    /\ destroyed' = FALSE
    /\ detect' = None
    /\ img' = None
    /\ canny' = None
    /\ houghCall' = None
    /\ filtered' = None
    /\ lines' = None
    /\ features' = <<>>
    /\ json' = None
    /\ inputs' = <<>>
    /\ lastCall' = "none"
    /\ exc' = None
    /\ status' = None
    /\ wrote' = FALSE
    /\ UNCHANGED env

\* the outcome of the invocation that has just ended
Outcome ==
    [argv |-> argv, wrote |-> wrote, status |-> status, lines |-> lines, json |-> json,
     file |-> IF wrote THEN Some(fs[Get(args).outdir]) ELSE None]

\* python geovision.py <argv>
Invoke ==
    /\ pc = "idle"
    /\ \E av \in Argvs : Fresh("load_options", av)
    /\ UNCHANGED prev

\* the process ends; nothing but the file system outlives it
Terminate ==
    /\ pc = "done"
    /\ Fresh("idle", NoArgv)
    /\ prev' = None

\* the same command line again, with another number of -v flags
InvokeAgain ==
    /\ pc = "done"
    /\ \E n \in 0..MaxVerbosity : Fresh("load_options", [argv EXCEPT !.v = n])
    /\ prev' = Some(Outcome)

\* args = load_options(argv)
LoadOptions ==
    /\ pc = "load_options"
    /\ args' = ParseArgs(argv)
    /\ IF IsNone(args')
       THEN exc' = Some("SystemExit") /\ pc' = "exit"
       ELSE exc' = exc /\ pc' = "verbosity"
    /\ UNCHANGED <<env, gis, prev, argv, debug, windows, console, destroyed, detect, img,
                   canny, houghCall, filtered, lines, status, wrote>>

SetVerbosity ==
    /\ pc = "verbosity"
    /\ debug' = MainSetVerbosity(debug, Get(args))
    /\ pc' = "detector"
    /\ UNCHANGED <<env, gis, prev, argv, args, windows, console, destroyed, detect, img,
                   canny, houghCall, filtered, lines, exc, status, wrote>>

MakeDetector ==
    /\ pc = "detector"
    /\ detect' = Some(MainMakeDetector(Get(args)))
    /\ pc' = "imread"
    /\ UNCHANGED <<env, gis, prev, argv, args, debug, windows, console, destroyed, img,
                   canny, houghCall, filtered, lines, exc, status, wrote>>

\* detect_roads: img = cv2.imread(image_path, cv2.IMREAD_COLOR)
Imread ==
    /\ pc = "imread"
    /\ img' = imread(Get(args).image)
    /\ pc' = "cvtColor"
    /\ UNCHANGED <<env, gis, prev, argv, args, debug, windows, console, destroyed, detect,
                   canny, houghCall, filtered, lines, exc, status, wrote>>

\* detect_roads: cvtColor raises cv2.error on a None image; otherwise Canny
\* runs on the gray image and the Debugger shows the edge map
CvtColorCanny ==
    /\ pc = "cvtColor"
    /\ IF CvtColor(img).raised
       THEN /\ exc' = Some("cv2.error")
            /\ pc' = "exit"
            /\ UNCHANGED <<canny, windows>>
       ELSE LET d     == Get(detect)
                edges == Canny(Get(CvtColor(img).gray), d.canny_threshold1,
                               d.canny_threshold2)
                shown == DebuggerImage(debug, edges, windows)
            IN  /\ canny' = Some(shown.img)
                /\ windows' = shown.windows
                /\ pc' = "HoughLinesP"
                /\ exc' = exc
    /\ UNCHANGED <<env, gis, prev, argv, args, debug, console, destroyed, detect, img,
                   houghCall, filtered, lines, status, wrote>>

\* detect_roads: filtered = cv2.HoughLinesP(...); "No lines found" returns None
Hough ==
    /\ pc = "HoughLinesP"
    /\ LET d == Get(detect)
       IN  /\ houghCall' = Some([rho |-> d.hough_rho, theta |-> d.hough_theta,
                                 threshold |-> d.hough_threshold])
           /\ filtered' = HoughLinesP(Get(canny), d.hough_rho, d.hough_theta,
                                      d.hough_threshold)
    /\ IF IsNone(filtered')
       THEN /\ console' = DebuggerLog(debug, console, [text |-> "No lines found"])
            /\ pc' = "if_lines"
       ELSE /\ console' = console
            /\ pc' = "collect"
    /\ UNCHANGED <<env, gis, prev, argv, args, debug, windows, destroyed, detect, img,
                   canny, lines, exc, status, wrote>>

\* detect_roads: the loop over filtered[0], the annotated image, return lines
Collect ==
    /\ pc = "collect"
    /\ LET got   == CollectLines(debug, FirstPlane(Get(filtered), cvLayout), <<>>, Get(img))
           shown == DebuggerImage(debug, got.img, windows)
       IN  /\ lines' = Some(got.lines)
           /\ img' = Some(shown.img)
           /\ windows' = shown.windows
    /\ pc' = "if_lines"
    /\ UNCHANGED <<env, gis, prev, argv, args, debug, console, destroyed, detect,
                   canny, houghCall, filtered, exc, status, wrote>>

\* main: "if lines:" and, when true, gis = GIS(debug)
IfLines ==
    /\ pc = "if_lines"
    /\ pc' = IF LinesTruthy(lines) THEN "add_lines" ELSE "exit"
    /\ UNCHANGED <<env, gis, prev, argv, args, debug, windows, console, destroyed, detect,
                   img, canny, houghCall, filtered, lines, exc, status, wrote>>

\* a call of GIS.add_lines(ls)
GisAddLines(ls) ==
    /\ features' = AddLines(features, ls)
    /\ console' = LogLines(debug, console, ls)
    /\ inputs' = Append(inputs, ls)
    /\ lastCall' = "add_lines"
    /\ UNCHANGED json

\* a call of GIS.to_json()
GisToJson ==
    /\ json' = Some(ToJson(features))
    /\ console' = DebuggerLog(debug, console, [feature_col |-> FeatureCollection(features)])
    /\ lastCall' = "to_json"
    /\ UNCHANGED <<features, inputs>>

\* main: gis.add_lines(lines)
MainAddLines ==
    /\ pc = "add_lines"
    /\ GisAddLines(Get(lines))
    /\ pc' = "to_json"
    /\ UNCHANGED <<env, prev, argv, args, debug, windows, destroyed, detect, img,
                   canny, houghCall, filtered, lines, exc, status, wrote>>

\* main: gis.to_json()
MainToJson ==
    /\ pc = "to_json"
    /\ GisToJson
    /\ pc' = "save_json"
    /\ UNCHANGED <<env, prev, argv, args, debug, windows, destroyed,
                   detect, img, canny, houghCall, filtered, lines, exc, status, wrote>>

\* main: save_json(json, args.outdir)
MainSaveJson ==
    /\ pc = "save_json"
    /\ LET r == SaveJson(fs, Get(json), Get(args).outdir)
       IN  /\ fs' = r.fs
           /\ wrote' = r.ok
           /\ exc' = IF r.ok THEN exc ELSE Some("FileNotFoundError")
    /\ pc' = "exit"
    /\ UNCHANGED <<cvLayout, gis, prev, argv, args, debug, windows, console, destroyed,
                   detect, img, canny, houghCall, filtered, lines, status>>

\* Debugger.__exit__, on every way out of the with block
Exit ==
    /\ pc = "exit"
    /\ LET r == DebuggerExit(windows, exc)
       IN  /\ windows' = r.windows
           /\ status' = r.raised
    /\ destroyed' = TRUE
    /\ pc' = "done"
    /\ UNCHANGED <<env, gis, prev, argv, args, debug, console, detect, img, canny,
                   houghCall, filtered, lines, exc, wrote>>

Run ==
    \/ LoadOptions
    \/ SetVerbosity
    \/ MakeDetector
    \/ Imread
    \/ CvtColorCanny
    \/ Hough
    \/ Collect
    \/ IfLines
    \/ MainAddLines
    \/ MainToJson
    \/ MainSaveJson
    \/ Exit

Next == Invoke \/ Run \/ Terminate

Spec == Init /\ [][Next]_vars

\* pairs of invocations that differ only in the number of -v flags
NextAgain == Invoke \/ InvokeAgain \/ Run

SpecVerbosity == Init /\ [][NextAgain]_vars

(* ------------------ the GIS class used by a direct caller -------------- *)
\* the segments of the round-trip example
SegmentPool == { << <<0, 0>>, <<10, 0>> >>, << <<5, 5>>, <<5, 15>> >> }
SegLists == UNION {[1..n -> SegmentPool] : n \in 0..MaxLen}

\* gis = GIS(): the default Debugger, an empty accumulator
GisNew ==
    /\ pc = "idle"
    /\ pc' = "gis"
    /\ features' = <<>>
    /\ debug' = DebuggerInit
    /\ UNCHANGED <<env, prev, json, inputs, lastCall, argv, args, windows, console,
                   destroyed, detect, img, canny, houghCall, filtered, lines, exc, status,
                   wrote>>

ApiAddLines ==
    /\ pc = "gis"
    /\ Len(inputs) < MaxAdds
    /\ \E ls \in SegLists : GisAddLines(ls)
    /\ UNCHANGED <<env, prev, pc, argv, args, debug, windows, destroyed, detect, img,
                   canny, houghCall, filtered, lines, exc, status, wrote>>

ApiToJson ==
    /\ pc = "gis"
    /\ GisToJson
    /\ UNCHANGED <<env, prev, pc, argv, args, debug, windows, destroyed, detect, img,
                   canny, houghCall, filtered, lines, exc, status, wrote>>

NextGIS == GisNew \/ ApiAddLines \/ ApiToJson

SpecGIS == Init /\ [][NextGIS]_vars

(* ------------------------------ claims --------------------------------- *)
\* reading a geo.json text back: the segments of every GeometryCollection,
\* four numbers to a segment, in the order they are written
ReadBack(text) ==
    LET at      == [i \in 1..Len(text) |-> [i |-> i, tk |-> text[i]]]
        isGeoms(e) == e.tk.t = "string" /\ e.tk.s = "geometries"
        starts  == SelectSeq(at, isGeoms)
        last(k) == IF k = Len(starts) THEN Len(text) + 1 ELSE starts[k + 1].i
        nums(k) == SelectSeq(at, LAMBDA e : /\ e.tk.t = "number"
                                            /\ e.i > starts[k].i
                                            /\ e.i < last(k))
        segs(k) == [j \in 1..(Len(nums(k)) \div 4) |->
                      << <<nums(k)[4 * j - 3].tk.n, nums(k)[4 * j - 2].tk.n>>,
                         <<nums(k)[4 * j - 1].tk.n, nums(k)[4 * j].tk.n>> >>]
    IN  [k \in 1..Len(starts) |-> segs(k)]

\* how often a string literal occurs in a text
CountString(text, lit) ==
    Cardinality({i \in 1..Len(text) : text[i].t = "string" /\ text[i].s = lit})

\* the segments the line detection yielded, as detect_roads is to return them
SegmentsOf(rows) == [i \in 1..Len(rows) |->
                        << <<rows[i][1], rows[i][2]>>, <<rows[i][3], rows[i][4]>> >>]

OutdirWritable == ~IsNone(args) /\ Get(args).outdir \in WritableDirs

\* C1: every invocation with --image and --outdir present and an image that
\* loads writes <outdir>/geo.json, also when the detector finds no lines.
C1_WritesWheneverImageLoads ==
    (pc = "done" /\ OutdirWritable /\ ~IsNone(img))
        => (wrote /\ fs[Get(args).outdir].exists)

\* C2: after a completed invocation, an existing <outdir>/geo.json holds exactly
\* the serialized feature collection of that invocation, never an earlier one's.
C2_FileHoldsLatestInvocation ==
    (pc = "done" /\ IsNone(status) /\ OutdirWritable /\ fs[Get(args).outdir].exists)
        => fs[Get(args).outdir].text =
               ToJson(AddLines(<<>>, IF IsNone(lines) THEN <<>> ELSE Get(lines)))

\* C3: on a fresh GIS, one add_lines call followed by to_json yields a
\* FeatureCollection with exactly one GeometryCollection holding one two-point
\* LineString per input segment, in input order, with the segment's own
\* endpoint values as floats, so that the segments read back from the text are
\* the input segments.
C3_RoundTrip ==
    (Len(inputs) = 1 /\ lastCall = "to_json" /\ ~IsNone(json))
        => LET segs == inputs[1]
               text == Get(json)
           IN  /\ Len(features) = 1
               /\ features[1].type = "GeometryCollection"
               /\ Len(features[1].geometries) = Len(segs)
               /\ \A i \in 1..Len(segs) :
                     /\ features[1].geometries[i].type = "LineString"
                     /\ features[1].geometries[i].coordinates =
                            << <<[float |-> segs[i][1][1]], [float |-> segs[i][1][2]]>>,
                               <<[float |-> segs[i][2][1]], [float |-> segs[i][2][2]]>> >>
               /\ CountString(text, "FeatureCollection") = 1
               /\ CountString(text, "GeometryCollection") = 1
               /\ CountString(text, "LineString") = Len(segs)
               /\ ReadBack(text) = <<segs>>

C3_Witness ==
    /\ pc = "gis"
    /\ Len(inputs) = 1
    /\ lastCall = "to_json"
    /\ Len(inputs[1]) = 2
    /\ inputs[1][1] = inputs[1][2]

\* C4: two invocations that differ only in the number of -v flags end with the
\* same outcome: the same segments, the same exporter text, the same exit, the
\* file written in both or in neither and with the same content.
SameButVerbosity(a, b) == [a EXCEPT !.v = 0] = [b EXCEPT !.v = 0]

C4_VerbosityDoesNotChangeOutcome ==
    (pc = "done" /\ ~IsNone(prev) /\ SameButVerbosity(Get(prev).argv, argv))
        => /\ Get(prev).wrote = wrote
           /\ Get(prev).status = status
           /\ Get(prev).lines = lines
           /\ Get(prev).json = json
           /\ Get(prev).file = Outcome.file

C4_Witness ==
    /\ pc = "done"
    /\ ~IsNone(prev)
    /\ Get(prev).argv.v = 0
    /\ argv.v = 2
    /\ debug.show_images
    /\ wrote
    /\ Len(Get(lines)) > 1

\* C5: when the image load yields no image, detect_roads ends in an error that
\* reaches the caller: no edge detection, no line detection, no segment list,
\* no exporter call, and geo.json is neither created nor modified.
C5_NothingRunsOnMissingImage ==
    /\ IsNone(img) => /\ IsNone(canny)
                      /\ IsNone(houghCall)
                      /\ IsNone(filtered)
                      /\ IsNone(lines)
                      /\ inputs = <<>>
                      /\ IsNone(json)
                      /\ ~wrote
    /\ (pc = "done" /\ ~IsNone(args) /\ IsNone(img)) => status = Some("cv2.error")

C5_LoadFailureIsAnError ==
    /\ []C5_NothingRunsOnMissingImage
    /\ [][IsNone(img) => fs' = fs]_vars

C5_Witness ==
    /\ pc = "done"
    /\ status = Some("cv2.error")
    /\ OutdirWritable
    /\ fs[Get(args).outdir].exists

\* C6: on every way out of main's Debugger scope the windows are released, and
\* an error raised inside the scope is the error the run ends with.
C6_ExitReleasesAndPropagates ==
    /\ pc = "done" => (destroyed /\ windows = {} /\ status = exc)
    /\ ~IsNone(exc) => pc \in {"exit", "done"}

C6_Witness ==
    /\ pc = "done"
    /\ status = Some("FileNotFoundError")
    /\ debug.show_images
    /\ ~IsNone(canny)

\* C7: the line detection runs with exactly the --rho and --theta values given
\* on the command line, with the defaults when an option is absent; every
\* other parameter keeps its default.
C7_HoughRunsWithGivenValues ==
    ~IsNone(houghCall)
        => /\ Get(houghCall).rho =
                  (IF IsNone(Get(args).rho) THEN DefaultRho ELSE Get(Get(args).rho))
           /\ Get(houghCall).theta =
                  (IF IsNone(Get(args).theta) THEN DefaultTheta ELSE Get(Get(args).theta))
           /\ Get(houghCall).threshold = DefaultHoughThreshold
           /\ Get(detect).canny_threshold1 = DefaultCannyThreshold1
           /\ Get(detect).canny_threshold2 = DefaultCannyThreshold2

\* C8: a fresh Debugger has both channels disabled; no -v flag leaves both
\* disabled for the whole run, with nothing printed and no window; exactly one
\* enables logging only; two or more enable image display and logging; nothing
\* after main's verbosity block changes the flags.
C8_VerbosityMapping ==
    /\ pc \in {"idle", "load_options", "verbosity"} => debug = DebuggerInit
    /\ IsNone(args) => debug = DebuggerInit
    /\ (pc \notin {"idle", "load_options", "verbosity", "gis"} /\ ~IsNone(args))
          => /\ argv.v = 0 => /\ ~debug.show_log
                              /\ ~debug.show_images
                              /\ console = <<>>
                              /\ windows = {}
             /\ argv.v = 1 => (debug.show_log /\ ~debug.show_images)
             /\ argv.v >= 2 => (debug.show_log /\ debug.show_images)

C8_Witness ==
    /\ pc = "done"
    /\ argv.v = 1
    /\ debug.show_log
    /\ ~debug.show_images
    /\ Len(console) > 1

\* C9: when the line detection yields N >= 1 segments, detect_roads returns
\* exactly those N segments, endpoints unchanged, in the order yielded.
C9_ReturnsEveryDetectedSegment ==
    (pc = "if_lines" /\ ~IsNone(filtered))
        => lines = Some(SegmentsOf(Get(filtered)))

\* C10: each add_lines call appends exactly one GeometryCollection (also for an
\* empty input) and leaves the earlier ones as they are; to_json returns the
\* serialization of all collections added so far, in call order, and leaves the
\* accumulator unchanged; a to_json right after a to_json returns the same text.
C10_AddStep ==
    (inputs' # inputs)
        => /\ Len(features') = Len(features) + 1
           /\ SubSeq(features', 1, Len(features)) = features
           /\ features'[Len(features')].type = "GeometryCollection"
           /\ Len(features'[Len(features')].geometries) = Len(inputs'[Len(inputs')])

C10_ToJsonStep ==
    (lastCall' = "to_json" /\ inputs' = inputs)
        => /\ features' = features
           /\ ~IsNone(json')
           /\ CountString(Get(json'), "GeometryCollection") = Len(inputs)
           /\ ReadBack(Get(json')) = inputs
           /\ lastCall = "to_json" => json' = json

C10_Accumulator ==
    /\ [](Len(features) = Len(inputs))
    /\ [][C10_AddStep /\ C10_ToJsonStep]_vars

C10_Witness ==
    /\ pc = "gis"
    /\ Len(inputs) = 2
    /\ inputs[1] = <<>>
    /\ inputs[2] # <<>>
    /\ lastCall = "to_json"
    /\ CountString(Get(json), "GeometryCollection") = 2

====
